---------------------------- MODULE Spec2Model ----------------------------
(***************************************************************************)
(* A model of backup-automation/mysql_backup.py: MySQLBackupManager and    *)
(* main.  One run of the script is a state machine whose steps are the     *)
(* calls run_backup makes for each configured database (dump, upload,      *)
(* retention cleanup, local removal), followed by the report, the          *)
(* notification and the process exit.  The external collaborators          *)
(* (mysqldump, gzip, S3, SMTP) answer nondeterministically: every call     *)
(* either succeeds or raises.                                              *)
(*                                                                         *)
(* Strings are sequences of tokens: a database name is a sequence of       *)
(* one-character strings, so that str.strip and S3's prefix match are      *)
(* computed character by character.  Time is counted in ticks since an     *)
(* arbitrary epoch; `now` is the UTC instant, the host's datetime.now()    *)
(* returns now + tzOffset as a naive local time.                           *)
(***************************************************************************)
EXTENDS Integers, Sequences, FiniteSets, TLC

(***************************************************************************)
(* Bounds of the model.                                                    *)
(***************************************************************************)
\* the longest configured database list
MaxDbs == 2
\* the most objects earlier runs have left in the bucket
MaxOld == 2
\* ticks per day: the resolution of the clock
TicksPerDay == 2
\* the most keys one list_objects_v2 response carries (1000 at S3)
MaxKeys == 2
\* the UTC instant at which the process starts
StartTime == 200

\* entries of the `databases` option as written in the file, before strip()
RawNames == { <<"a">>, <<" ", "a", "b">> }
\* the values of backup.retention_days tried
RetentionChoices == {0, 30}
\* the host's offset from UTC, in ticks
TzOffsets == {-1, 0, 1}
\* the ages, in days at process start, of the backups earlier runs left
OldAgesDays == {25, 60}

(***************************************************************************)
(* Strings.                                                                *)
(***************************************************************************)
RECURSIVE LStrip(_)
LStrip(s) == IF s # <<>> /\ Head(s) = " " THEN LStrip(Tail(s)) ELSE s

RECURSIVE RStrip(_)
RStrip(s) ==
    IF s # <<>> /\ s[Len(s)] = " " THEN RStrip(SubSeq(s, 1, Len(s) - 1)) ELSE s

\* str.strip(): leading and trailing blanks removed
Strip(s) == RStrip(LStrip(s))

\* str.startswith, as S3 matches Prefix against a key
StartsWith(s, p) == Len(p) <= Len(s) /\ SubSeq(s, 1, Len(p)) = p

\* strftime of a naive local time: an injective rendering of the instant
Fmt(t) == ToString(t)

\* the path components that end in a separator
IsSep(tok) == tok \in {"/", "backup_dir/", "mysql_backups/"}

RECURSIVE LastSep(_)
LastSep(p) == IF p = <<>> \/ IsSep(p[Len(p)]) THEN Len(p)
              ELSE LastSep(SubSeq(p, 1, Len(p) - 1))

\* os.path.basename
Basename(p) == SubSeq(p, LastSep(p) + 1, Len(p))

\* f"{self.backup_dir}/{database}_{timestamp}.sql"
DumpPath(database, localNow) ==
    <<"backup_dir/">> \o database \o <<"_", Fmt(localNow), ".sql">>

\* faulty variant: the uncompressed path is handed on
CompressedNot(dump_file) == dump_file

\* f"{dump_file}.gz"
Compressed(dump_file) == dump_file \o <<".gz">>

\* f"mysql_backups/{database}/{file_name}"
S3Key(database, file_name) ==
    <<"mysql_backups/">> \o database \o <<"/">> \o file_name

\* faulty variant: the prefix lacks the closing separator
S3PrefixOpen(database) == <<"mysql_backups/">> \o database

\* f"mysql_backups/{database}/"
S3Prefix(database) == <<"mysql_backups/">> \o database \o <<"/">>


(***************************************************************************)
(* State.                                                                  *)
(***************************************************************************)
VARIABLES
    databases,       \* self.databases: the configured list, entries unstripped
    retention_days,  \* self.retention_days
    tzOffset,        \* the host's local time minus UTC
    now,             \* the current UTC instant
    pc,              \* where main / run_backup stands
    idx,             \* the position in self.databases of the loop of run_backup
    dump_file,       \* run_backup's dump_file of the current iteration
    success_count,   \* run_backup's success_count
    error_count,     \* run_backup's error_count
    backup_details,  \* run_backup's backup_details
    localFiles,      \* the files in self.backup_dir
    s3,              \* the objects in self.s3_bucket
    notifications,   \* the calls of send_notification
    exitCode,        \* the process exit status, -1 while running
    stage,           \* per list position: how far its pipeline got
    fault,           \* per list position: the call that raised, if any
    lastCleanup      \* what the latest call of cleanup_old_backups did

\* system_health_check.py, a process of its own
VARIABLES
    args,            \* the parsed command line of the health check
    hpc,             \* where main of the health check stands
    alerts,          \* checker.alerts
    warnings,        \* checker.warnings
    info,            \* checker.info
    cpu_status,      \* main's cpu_status
    memory_status,   \* main's memory_status
    disk_status,     \* main's disk_status
    service_status,  \* main's service_status
    network_status,  \* main's network_status
    load_status,     \* main's load_status
    report,          \* main's report
    stdout,          \* what main printed
    smtp,            \* the messages handed to the SMTP server
    errorLog,        \* the logging.error lines of the health check
    exitStatus       \* the exit status of the health check, -1 while running

\* the variables of mysql_backup.py
backup == <<databases, retention_days, tzOffset, now, pc, idx, dump_file,
            success_count, error_count, backup_details, localFiles, s3,
            notifications, exitCode, stage, fault, lastCleanup>>

\* the variables of system_health_check.py
health == <<args, hpc, alerts, warnings, info, cpu_status, memory_status,
            disk_status, service_status, network_status, load_status, report,
            stdout, smtp, errorLog, exitStatus>>

vars == <<backup, health>>

config == <<databases, retention_days, tzOffset>>

\* datetime.now(): the host's naive local time
LocalNow(t) == t + tzOffset

\* the database of iteration i, as the loop body sees it
Database(i) == Strip(databases[i])

\* no call of cleanup_old_backups yet.  index: the list position the call was
\* made for; error: "list" or "delete" when the call of that name raised;
\* listing: response['Contents']; examined: how many of them the loop
\* reached; issued: the keys delete_object was called with; deleted: those
\* it succeeded for; failedKey: the one it raised for.
NoCleanup == [index |-> 0, error |-> "none", localNow |-> 0, cutoff |-> 0,
              listing |-> <<>>, examined |-> 0, issued |-> {}, deleted |-> {},
              failedKey |-> <<>>]

(***************************************************************************)
(* The bucket.                                                             *)
(***************************************************************************)
\* every local timestamp a file name of this model can carry
Stamps ==
    {StartTime - d * TicksPerDay + o : d \in OldAgesDays, o \in TzOffsets}
    \cup {StartTime + k + o : k \in 0..MaxDbs, o \in TzOffsets}

\* the rendering of each of them
StampText == [t \in Stamps |-> Fmt(t)]

\* the instant a timestamp token was rendered from
StampValue(tok) == CHOOSE t \in Stamps : StampText[t] = tok

\* The order of keys under one database's prefix: they differ only in the
\* timestamp, whose fixed-width rendering sorts chronologically.
KeyLess(k1, k2) ==
    StampValue(k1[Len(k1) - 2]) < StampValue(k2[Len(k2) - 2])

RECURSIVE SortByKey(_)
SortByKey(objs) ==
    IF objs = {} THEN <<>>
    ELSE LET first == CHOOSE o \in objs :
                          \A q \in objs \ {o} : KeyLess(o.Key, q.Key)
         IN  <<first>> \o SortByKey(objs \ {first})

\* list_objects_v2(Bucket, Prefix): one response, at most MaxKeys keys in
\* key order; the code never asks for a continuation
list_objects_v2(store, prefix) ==
    LET all == SortByKey({o \in store : StartsWith(o.Key, prefix)})
    IN  SubSeq(all, 1, IF Len(all) < MaxKeys THEN Len(all) ELSE MaxKeys)

\* upload_file: the object is created or overwritten, untagged
PutObject(store, key, t) ==
    {o \in store : o.Key # key}
    \cup {[Key |-> key, LastModified |-> t, Tagged |-> FALSE]}

\* put_object_tagging
TagObject(store, key) ==
    {IF o.Key = key THEN [o EXCEPT !.Tagged = TRUE] ELSE o : o \in store}

\* delete_object
DeleteObject(store, key) == {o \in store : o.Key # key}

\* the backup an earlier run on this host made of db, `days` before the start
OldObject(db, days, offset) ==
    LET t == StartTime - days * TicksPerDay
    IN  [Key |-> S3Key(db, Basename(Compressed(DumpPath(db, t + offset)))),
         LastModified |-> t, Tagged |-> TRUE]

(***************************************************************************)
(* Init: the process starts; the bucket holds what earlier runs left of    *)
(* the configured databases.                                               *)
(***************************************************************************)
\* Python's None
None == [isNone |-> TRUE]

\* the health check before its main has been entered
HealthIdle ==
    /\ args = [json |-> FALSE, email |-> FALSE,
               services |-> <<"nginx", "mysql", "redis">>,
               hosts |-> <<"8.8.8.8", "google.com">>]
    /\ hpc = "main"
    /\ alerts = <<>> /\ warnings = <<>> /\ info = <<>>
    /\ cpu_status = None /\ memory_status = None /\ disk_status = None
    /\ service_status = None /\ network_status = None /\ load_status = None
    /\ report = None
    /\ stdout = <<>>
    /\ smtp = <<>>
    /\ errorLog = <<>>
    /\ exitStatus = -1

Init ==
    /\ HealthIdle
    /\ databases \in UNION {[1..n -> RawNames] : n \in 1..MaxDbs}
    /\ retention_days \in RetentionChoices
    /\ tzOffset \in TzOffsets
    /\ now = StartTime
    /\ pc = "main"
    /\ idx = 0
    /\ dump_file = <<>>
    /\ success_count = 0
    /\ error_count = 0
    /\ backup_details = <<>>
    /\ localFiles = {}
    /\ s3 \in {S \in SUBSET {OldObject(Database(i), d, tzOffset) :
                               i \in 1..Len(databases), d \in OldAgesDays} :
                 Cardinality(S) <= MaxOld}
    /\ notifications = <<>>
    /\ exitCode = -1
    /\ stage = [i \in 1..Len(databases) |-> "PENDING"]
    /\ fault = [i \in 1..Len(databases) |-> "none"]
    /\ lastCleanup = NoCleanup

(***************************************************************************)
(* run_backup: the loop over self.databases.                               *)
(***************************************************************************)
\* where the loop goes once iteration i is over: the next database, or the
\* report after the last one
LoopNext(i) == IF i < Len(databases) THEN "dump" ELSE "report"

\* faulty variant: the except block ends the loop
AfterExceptAbort(i) == "report"

\* faulty variant: the except block re-raises, and main exits at once
AfterExceptReraise(i) == "exited"

\* where control goes after the except block of iteration i: the handler
\* swallows the exception and the loop goes on
AfterExcept(i) == LoopNext(i)

\* faulty variant: every line carries the success mark
DetailAlwaysOk(ok, database, text) ==
    [ok |-> TRUE, database |-> database, text |-> text]

\* backup_details.append(f"<mark> {database}: {text}")
Detail(ok, database, text) == [ok |-> ok, database |-> database, text |-> text]

\* str(e) of the exception each failing call raises
Reason(kind) == <<"error", kind>>

\* The except block of run_backup: iteration idx ends as a failure.
Failed(kind) ==
    /\ error_count' = error_count + 1
    /\ backup_details' =
           Append(backup_details, Detail(FALSE, Database(idx), Reason(kind)))
    /\ stage' = [stage EXCEPT ![idx] = "FAILED"]
    /\ fault' = [fault EXCEPT ![idx] = kind]
    /\ pc' = AfterExcept(idx)
    /\ idx' = IF AfterExcept(idx) = "dump" THEN idx + 1 ELSE idx
    /\ UNCHANGED success_count

\* faulty variant: the except clause of main ends the process with status 0
MainExceptSilent == [pc |-> "exited", exitCode |-> 0]

\* main's except clause: the error is logged and sys.exit(1) is called
MainExcept == [pc |-> "exited", exitCode |-> 1]

\* main: MySQLBackupManager() is constructed, then run_backup is entered; an
\* exception of the constructor ends the process with status 1.
MainConstruct ==
    /\ pc = "main"
    /\ UNCHANGED health
    /\ \E ok \in BOOLEAN :
          IF ok THEN /\ pc' = "dump"
                     /\ idx' = 1
                     /\ UNCHANGED exitCode
                ELSE /\ pc' = MainExcept.pc
                     /\ exitCode' = MainExcept.exitCode
                     /\ UNCHANGED idx
    /\ UNCHANGED <<config, now, dump_file, success_count, error_count,
                   backup_details, localFiles, s3, notifications, stage,
                   fault, lastCleanup>>

\* gzip refuses to overwrite an existing output file
GzipCanSucceed(files, raw) == Compressed(raw) \notin files

\* create_mysql_dump, as called by run_backup.  outcome is what the
\* environment does: "open" (the dump file cannot be created), "mysqldump"
\* (non-zero exit status, the partial file stays), "gzip" (the compression
\* fails, the raw dump stays) or "ok".
CreateDump ==
    /\ pc = "dump"
    /\ UNCHANGED health
    /\ LET raw == DumpPath(Database(idx), LocalNow(now)) IN
       \E outcome \in {"open", "mysqldump", "gzip", "ok"} :
          /\ outcome = "ok" => GzipCanSucceed(localFiles, raw)
          /\ IF outcome = "ok"
             THEN /\ localFiles' = (localFiles \ {raw}) \cup {Compressed(raw)}
                  /\ dump_file' = Compressed(raw)
                  /\ stage' = [stage EXCEPT ![idx] = "DUMPED"]
                  /\ pc' = "upload"
                  /\ UNCHANGED <<idx, success_count, error_count,
                                 backup_details, fault>>
             ELSE /\ localFiles' = IF outcome = "open" THEN localFiles
                                   ELSE localFiles \cup {raw}
                  /\ Failed(outcome)
                  /\ UNCHANGED dump_file
    /\ UNCHANGED <<config, now, s3, notifications, exitCode, lastCleanup>>

\* upload_to_s3, as called by run_backup.  outcome: "transfer" (upload_file
\* raises), "tagging" (put_object_tagging raises, the object is stored) or
\* "ok".  Both failures are re-raised to run_backup.
UploadToS3 ==
    /\ pc = "upload"
    /\ UNCHANGED health
    /\ LET s3_key == S3Key(Database(idx), Basename(dump_file)) IN
       \E outcome \in {"transfer", "tagging", "ok"} :
          /\ s3' = CASE outcome = "transfer" -> s3
                     [] outcome = "tagging" -> PutObject(s3, s3_key, now)
                     [] OTHER -> TagObject(PutObject(s3, s3_key, now), s3_key)
          /\ IF outcome = "ok"
             THEN /\ stage' = [stage EXCEPT ![idx] = "UPLOADED"]
                  /\ pc' = "cleanup"
                  /\ UNCHANGED <<idx, success_count, error_count,
                                 backup_details, fault>>
             ELSE Failed(outcome)
    /\ UNCHANGED <<config, now, dump_file, localFiles, notifications,
                   exitCode, lastCleanup>>

(***************************************************************************)
(* cleanup_old_backups.                                                    *)
(***************************************************************************)
\* cutoff_date = datetime.now() - timedelta(days=self.retention_days)
CutoffDate(localNow, days) == localNow - days * TicksPerDay

\* faulty variant: the boundary is included
IsExpiredInclusive(obj, cutoff) == obj.LastModified <= cutoff

\* obj['LastModified'].replace(tzinfo=None) < cutoff_date: the UTC wall-clock
\* reading of the object against the local wall-clock cutoff
IsExpired(obj, cutoff) == obj.LastModified < cutoff

\* The for loop over response['Contents'] from position k on.  The delete of
\* position failAt raises if it is attempted (0: no delete raises); the
\* exception leaves the loop.
RECURSIVE DeleteLoop(_, _, _, _, _)
DeleteLoop(listing, k, cutoff, failAt, acc) ==
    IF k > Len(listing) THEN [acc EXCEPT !.examined = Len(listing)]
    ELSE LET key == listing[k].Key IN
         IF IsExpired(listing[k], cutoff)
         THEN IF k = failAt
              THEN [acc EXCEPT !.examined = k,
                               !.issued = @ \cup {key},
                               !.failedKey = key,
                               !.error = "delete"]
              ELSE DeleteLoop(listing, k + 1, cutoff, failAt,
                              [acc EXCEPT !.issued = @ \cup {key},
                                          !.deleted = @ \cup {key},
                                          !.store = DeleteObject(@, key)])
         ELSE DeleteLoop(listing, k + 1, cutoff, failAt, acc)

\* The body of cleanup_old_backups(database) at local time localNow: the
\* bucket afterwards and what was done.  listOk: list_objects_v2 answers.
cleanup_old_backups(store, database, localNow, listOk, failAt) ==
    LET cutoff  == CutoffDate(localNow, retention_days)
        listing == list_objects_v2(store, S3Prefix(database))
        start   == [store |-> store, index |-> idx, error |-> "none",
                    localNow |-> localNow, cutoff |-> cutoff,
                    listing |-> <<>>, examined |-> 0, issued |-> {},
                    deleted |-> {}, failedKey |-> <<>>]
    IN  IF ~listOk THEN [start EXCEPT !.error = "list"]
        ELSE IF listing = <<>> THEN start
        ELSE DeleteLoop(listing, 1, cutoff, failAt,
                        [start EXCEPT !.listing = listing])

\* faulty variant: the except clause re-raises
CleanupReraises(error) == error # "none"

\* whether an error inside cleanup_old_backups reaches its caller: the
\* except clause logs it and returns
CleanupRaises(error) == FALSE

\* what lastCleanup keeps of a call
LogOf(r) == [f \in DOMAIN NoCleanup |-> r[f]]

\* cleanup_old_backups, as called by run_backup.  The clock may have moved
\* since the upload.
CleanupOldBackups ==
    /\ pc = "cleanup"
    /\ UNCHANGED health
    /\ \E dt \in {0, 1}, listOk \in BOOLEAN, failAt \in 0..MaxKeys :
          LET r == cleanup_old_backups(s3, Database(idx),
                                       LocalNow(now + dt), listOk, failAt)
          IN  /\ now' = now + dt
              /\ s3' = r.store
              /\ lastCleanup' = LogOf(r)
              /\ IF CleanupRaises(r.error)
                 THEN Failed("cleanup")
                 ELSE /\ stage' = [stage EXCEPT ![idx] = "CLEANED"]
                      /\ pc' = "remove"
                      /\ UNCHANGED <<idx, success_count, error_count,
                                     backup_details, fault>>
    /\ UNCHANGED <<config, dump_file, localFiles, notifications, exitCode>>

\* os.remove(dump_file), success_count += 1, backup_details.append(...): the
\* end of the try block.  os.remove raises when the file is not there.
RemoveLocal ==
    /\ pc = "remove"
    /\ UNCHANGED health
    /\ IF dump_file \in localFiles
       THEN /\ localFiles' = localFiles \ {dump_file}
            /\ success_count' = success_count + 1
            /\ backup_details' =
                   Append(backup_details,
                          Detail(TRUE, Database(idx), Basename(dump_file)))
            /\ stage' = [stage EXCEPT ![idx] = "DONE"]
            /\ pc' = LoopNext(idx)
            /\ idx' = IF LoopNext(idx) = "dump" THEN idx + 1 ELSE idx
            /\ UNCHANGED <<error_count, fault>>
       ELSE /\ Failed("remove")
            /\ UNCHANGED localFiles
    /\ UNCHANGED <<config, now, dump_file, s3, notifications, exitCode,
                   lastCleanup>>

(***************************************************************************)
(* The report, the notification and the exit.                              *)
(***************************************************************************)
\* the report text run_backup builds after the loop
Report == [processed |-> Len(databases), successes |-> success_count,
           errors |-> error_count, details |-> backup_details]

\* faulty variant: the except clause re-raises
NotifyReraises(delivered) == ~delivered

\* whether a failure inside send_notification reaches its caller: the
\* except clause logs it and returns
NotifyRaises(delivered) == FALSE

\* faulty variant: success as soon as one database succeeded
run_backup_result_any == success_count > 0

\* return success_count == len(self.databases)
run_backup_result == success_count = Len(databases)

\* main: sys.exit(0) if success else sys.exit(1)
ExitStatus(success) == IF success THEN 0 ELSE 1

\* faulty variant: the error flag is never passed
is_error_never == FALSE

\* if error_count > 0: send_notification(..., is_error=True), else without
is_error == error_count > 0

\* The end of run_backup and of main: the report is built,
\* send_notification is called once, with is_error when error_count > 0,
\* run_backup returns and main exits.  delivered: the SMTP session
\* succeeds.  An exception leaving run_backup ends in main's except clause,
\* with exit status 1.
ReportAndExit ==
    /\ pc = "report"
    /\ UNCHANGED health
    /\ \E delivered \in BOOLEAN :
          /\ notifications' =
                 Append(notifications,
                        [is_error |-> is_error, message |-> Report,
                         delivered |-> delivered])
          /\ exitCode' = IF NotifyRaises(delivered) THEN MainExcept.exitCode
                         ELSE ExitStatus(run_backup_result)
    /\ pc' = "exited"
    /\ UNCHANGED <<config, now, idx, dump_file, success_count, error_count,
                   backup_details, localFiles, s3, stage, fault, lastCleanup>>

Next ==
    \/ MainConstruct
    \/ CreateDump
    \/ UploadToS3
    \/ CleanupOldBackups
    \/ RemoveLocal
    \/ ReportAndExit

Spec == Init /\ [][Next]_vars

\* The script is one sequential process: as long as a step is pending it is
\* taken (every external call returns or raises).
FairSpec == Spec /\ WF_vars(Next)

(***************************************************************************)
(* system_health_check.py.  Readings are in tenths of a percent (psutil    *)
(* reports one decimal), loads in hundredths.                              *)
(***************************************************************************)
MaxPartitions == 1

\* the default thresholds of check_cpu_usage, check_memory_usage and
\* check_disk_usage, in percent
CpuThreshold == 80
MemoryThreshold == 85
DiskThreshold == 90

\* the per-core load above which check_load_average reports CRITICAL and
\* WARNING (1.5 and 1.0), in hundredths
LoadCritical == 150
LoadWarning == 100

\* for info in checker.info[:5]
InfoShown == 5

\* what the probes may read
CpuReadings == {640, 800, 801}
MemoryReadings == {680, 850, 851}
DiskReadings == {720, 900, 901}
LoadReadings == {200, 300, 302}
\* psutil.cpu_count(); 0 stands for None (undetermined)
CpuCounts == {0, 2}
ServiceLists == {<<"nginx">>, <<"nginx", "mysql">>}
HostLists == {<<"8.8.8.8">>}

\* f"{x}%" of a reading with one decimal
PercentText(v) == <<ToString(v \div 10), ".", ToString(v % 10), "%">>

\* f"{x:.2f}" of a value in hundredths
TwoDecimals(v) ==
    <<ToString(v \div 100), ".", ToString((v % 100) \div 10), ToString(v % 10)>>

\* The threshold test of the three usage checks: above the threshold
\* CRITICAL, above threshold * 0.8 WARNING, else OK.
Classify(value, threshold) ==
    IF value > threshold * 10 THEN "CRITICAL"
    ELSE IF value > threshold * 8 THEN "WARNING"
    ELSE "OK"

\* the three lists of the checker
Lists == [alerts |-> alerts, warnings |-> warnings, info |-> info]

\* self.alerts.append / self.warnings.append / self.info.append, by status
Note(lists, status, message) ==
    IF status = "CRITICAL" THEN [lists EXCEPT !.alerts = Append(@, message)]
    ELSE IF status = "WARNING" THEN [lists EXCEPT !.warnings = Append(@, message)]
    ELSE [lists EXCEPT !.info = Append(@, message)]

\* check_cpu_usage: the status dict and the lists afterwards
check_cpu_usage(lists, cpu_percent) ==
    LET st == Classify(cpu_percent, CpuThreshold) IN
    [status |-> [metric |-> "CPU Usage", value |-> PercentText(cpu_percent),
                 status |-> st],
     lists  |-> Note(lists, st, <<"CPU usage">> \o PercentText(cpu_percent))]

\* check_memory_usage
check_memory_usage(lists, memory_percent) ==
    LET st == Classify(memory_percent, MemoryThreshold) IN
    [status |-> [metric |-> "Memory Usage", value |-> PercentText(memory_percent),
                 status |-> st],
     lists  |-> Note(lists, st, <<"Memoria">> \o PercentText(memory_percent))]

\* the mount point of the k-th partition
Mountpoint(k) == <<"/mnt", ToString(k)>>

\* check_disk_usage from partition k on.  usage[k] is the percentage
\* psutil.disk_usage gives, or -1 when it raises PermissionError (the
\* partition is skipped).
RECURSIVE check_disk_usage(_, _, _, _)
check_disk_usage(lists, usage, k, disk) ==
    IF k > Len(usage) THEN [status |-> disk, lists |-> lists]
    ELSE IF usage[k] < 0 THEN check_disk_usage(lists, usage, k + 1, disk)
    ELSE LET st == Classify(usage[k], DiskThreshold) IN
         check_disk_usage(
             Note(lists, st, <<"Disco">> \o Mountpoint(k) \o PercentText(usage[k])),
             usage, k + 1,
             Append(disk, [mountpoint |-> Mountpoint(k),
                           percent |-> PercentText(usage[k]),
                           status |-> st]))

\* check_services from service k on.  answer[k] is what systemctl
\* is-active printed, or "raises" when subprocess.run raised.
RECURSIVE check_services(_, _, _, _, _)
check_services(acc, services_list, answer, k, done) ==
    IF k > Len(services_list)
    THEN [status |-> done, lists |-> acc.lists, log |-> acc.log]
    ELSE
    IF answer[k] = "raises"
    THEN check_services(
             [acc EXCEPT !.log = Append(@, <<"service", services_list[k]>>)],
             services_list, answer, k + 1, done)
    ELSE LET is_active == answer[k] = "active" IN
         check_services(
             [acc EXCEPT !.lists =
                 Note(@, IF is_active THEN "OK" ELSE "CRITICAL",
                      <<"Servico", services_list[k]>>)],
             services_list, answer, k + 1,
             Append(done, [service |-> services_list[k],
                           status |-> IF is_active THEN "RUNNING" ELSE "STOPPED",
                           active |-> is_active]))

\* check_network_connectivity from host k on.  answer[k] is "reachable"
\* (ping returned 0), "unreachable", or "raises".
RECURSIVE check_network_connectivity(_, _, _, _, _)
check_network_connectivity(acc, hosts, answer, k, done) ==
    IF k > Len(hosts)
    THEN [status |-> done, lists |-> acc.lists, log |-> acc.log]
    ELSE
    IF answer[k] = "raises"
    THEN check_network_connectivity(
             [acc EXCEPT !.log = Append(@, <<"host", hosts[k]>>)],
             hosts, answer, k + 1, done)
    ELSE LET is_reachable == answer[k] = "reachable" IN
         check_network_connectivity(
             [acc EXCEPT !.lists =
                 Note(@, IF is_reachable THEN "OK" ELSE "CRITICAL",
                      <<"Host", hosts[k]>>)],
             hosts, answer, k + 1,
             Append(done, [host |-> hosts[k],
                           reachable |-> is_reachable,
                           status |-> IF is_reachable THEN "OK" ELSE "FAILED"]))

\* The status of check_load_average for a 1-minute load and a core count
\* that is a number: load_1m = load_avg[0] / cpu_count against 1.5 and 1.0.
LoadStatus(load, cpu_count) ==
    IF load > LoadCritical * cpu_count THEN "CRITICAL"
    ELSE IF load > LoadWarning * cpu_count THEN "WARNING"
    ELSE "OK"

\* check_load_average.  probeOk: psutil.getloadavg answers.  When it raises,
\* or the division by cpu_count raises (None), the except clause logs and
\* the function returns None.
check_load_average(lists, log, probeOk, load, cpu_count) ==
    IF ~probeOk \/ cpu_count = 0
    THEN [status |-> None, lists |-> lists,
          log |-> Append(log, <<"load average">>)]
    ELSE LET st == LoadStatus(load, cpu_count)
             per_core == TwoDecimals(load \div cpu_count)
         IN  [status |-> [metric |-> "Load Average",
                          per_core_1m |-> per_core,
                          status |-> st],
              lists  |-> Note(lists, st, <<"Load average">> \o per_core),
              log    |-> log]

\* faulty variant: the warnings are looked at first
OverallStatusWarningsFirst(a, w) ==
    IF w # <<>> THEN "WARNING" ELSE IF a # <<>> THEN "CRITICAL" ELSE "OK"

\* 'CRITICAL' if self.alerts else ('WARNING' if self.warnings else 'OK')
OverallStatus(a, w) ==
    IF a # <<>> THEN "CRITICAL" ELSE IF w # <<>> THEN "WARNING" ELSE "OK"

\* generate_report, without the system_info block
generate_report(lists, cpu, memory, disk, services, network, load) ==
    [cpu |-> cpu, memory |-> memory, disk |-> disk, services |-> services,
     network |-> network, load_average |-> load,
     alerts |-> lists.alerts, warnings |-> lists.warnings, info |-> lists.info,
     summary |-> [total_alerts |-> Len(lists.alerts),
                  total_warnings |-> Len(lists.warnings),
                  overall_status |-> OverallStatus(lists.alerts, lists.warnings)]]

\* x[key] of Python raises TypeError when x is None
Subscriptable(x) == "isNone" \notin DOMAIN x

\* the f-string body of send_email_alert can be built: it reads
\* report['cpu']['value'], report['memory']['value'] and
\* report['load_average']['per_core_1m']
BodyBuilds(rep) ==
    /\ Subscriptable(rep.cpu)
    /\ Subscriptable(rep.memory)
    /\ Subscriptable(rep.load_average)

\* the body of the alert mail
Body(rep, lists) ==
    [alerts |-> lists.alerts, warnings |-> lists.warnings,
     cpu |-> rep.cpu.value, memory |-> rep.memory.value,
     load_average |-> rep.load_average.per_core_1m]

\* send_email_alert: what the SMTP server was handed and what was logged
\* (the except clause logs str(e): the TypeError of the body, or the error of
\* smtplib).  smtpOk: connect, starttls, login and send_message all succeed.
send_email_alert(rep, lists, smtpOk, outbox, log) ==
    IF lists.alerts = <<>> THEN [smtp |-> outbox, log |-> log]
    ELSE IF ~BodyBuilds(rep)
         THEN [smtp |-> outbox, log |-> Append(log, <<"email", "TypeError">>)]
    ELSE IF ~smtpOk
         THEN [smtp |-> outbox, log |-> Append(log, <<"email", "SMTPException">>)]
    ELSE [smtp |-> Append(outbox, Body(rep, lists)), log |-> log]

\* the exit status main chooses
ExitCodeOf(a, w) == IF a # <<>> THEN 2 ELSE IF w # <<>> THEN 1 ELSE 0

\* the first n entries of a list: list[:n]
Head5(list, n) == SubSeq(list, 1, IF Len(list) < n THEN Len(list) ELSE n)

\* the statuses main holds, and what was printed, sent and logged
results == <<cpu_status, memory_status, disk_status, service_status,
             network_status, load_status>>
outputs == <<report, stdout, smtp, exitStatus>>

\* mysql_backup.py is not running
BackupIdle ==
    /\ databases = << <<"a">> >>
    /\ retention_days = 30
    /\ tzOffset = 0
    /\ now = StartTime
    /\ pc = "main"
    /\ idx = 0
    /\ dump_file = <<>>
    /\ success_count = 0
    /\ error_count = 0
    /\ backup_details = <<>>
    /\ localFiles = {}
    /\ s3 = {}
    /\ notifications = <<>>
    /\ exitCode = -1
    /\ stage = [i \in 1..1 |-> "PENDING"]
    /\ fault = [i \in 1..1 |-> "none"]
    /\ lastCleanup = NoCleanup

HealthInit ==
    /\ BackupIdle
    /\ args \in [json : BOOLEAN, email : BOOLEAN,
                 services : ServiceLists, hosts : HostLists]
    /\ hpc = "main"
    /\ alerts = <<>> /\ warnings = <<>> /\ info = <<>>
    /\ cpu_status = None /\ memory_status = None /\ disk_status = None
    /\ service_status = None /\ network_status = None /\ load_status = None
    /\ report = None
    /\ stdout = <<>>
    /\ smtp = <<>>
    /\ errorLog = <<>>
    /\ exitStatus = -1

\* cpu_status = checker.check_cpu_usage()
CheckCpu ==
    /\ hpc = "main"
    /\ \E cpu_percent \in CpuReadings :
          LET r == check_cpu_usage(Lists, cpu_percent) IN
          /\ cpu_status' = r.status
          /\ alerts' = r.lists.alerts
          /\ warnings' = r.lists.warnings
          /\ info' = r.lists.info
    /\ hpc' = "memory"
    /\ UNCHANGED <<backup, args, memory_status, disk_status, service_status,
                   network_status, load_status, outputs, errorLog>>

\* memory_status = checker.check_memory_usage()
CheckMemory ==
    /\ hpc = "memory"
    /\ \E memory_percent \in MemoryReadings :
          LET r == check_memory_usage(Lists, memory_percent) IN
          /\ memory_status' = r.status
          /\ alerts' = r.lists.alerts
          /\ warnings' = r.lists.warnings
          /\ info' = r.lists.info
    /\ hpc' = "disk"
    /\ UNCHANGED <<backup, args, cpu_status, disk_status, service_status,
                   network_status, load_status, outputs, errorLog>>

\* disk_status = checker.check_disk_usage()
CheckDisk ==
    /\ hpc = "disk"
    /\ \E n \in 0..MaxPartitions :
       \E usage \in [1..n -> DiskReadings \cup {-1}] :
          LET r == check_disk_usage(Lists, usage, 1, <<>>) IN
          /\ disk_status' = r.status
          /\ alerts' = r.lists.alerts
          /\ warnings' = r.lists.warnings
          /\ info' = r.lists.info
    /\ hpc' = "services"
    /\ UNCHANGED <<backup, args, cpu_status, memory_status, service_status,
                   network_status, load_status, outputs, errorLog>>

\* service_status = checker.check_services(args.services)
CheckServices ==
    /\ hpc = "services"
    /\ \E answer \in [1..Len(args.services) -> {"active", "inactive", "raises"}] :
          LET r == check_services([lists |-> Lists, log |-> errorLog],
                                  args.services, answer, 1, <<>>) IN
          /\ service_status' = r.status
          /\ alerts' = r.lists.alerts
          /\ warnings' = r.lists.warnings
          /\ info' = r.lists.info
          /\ errorLog' = r.log
    /\ hpc' = "network"
    /\ UNCHANGED <<backup, args, cpu_status, memory_status, disk_status,
                   network_status, load_status, outputs>>

\* network_status = checker.check_network_connectivity(args.hosts)
CheckNetwork ==
    /\ hpc = "network"
    /\ \E answer \in [1..Len(args.hosts) -> {"reachable", "unreachable", "raises"}] :
          LET r == check_network_connectivity([lists |-> Lists, log |-> errorLog],
                                              args.hosts, answer, 1, <<>>) IN
          /\ network_status' = r.status
          /\ alerts' = r.lists.alerts
          /\ warnings' = r.lists.warnings
          /\ info' = r.lists.info
          /\ errorLog' = r.log
    /\ hpc' = "load"
    /\ UNCHANGED <<backup, args, cpu_status, memory_status, disk_status,
                   service_status, load_status, outputs>>

\* load_status = checker.check_load_average()
CheckLoad ==
    /\ hpc = "load"
    /\ \E probeOk \in BOOLEAN, load \in LoadReadings, cpu_count \in CpuCounts :
          LET r == check_load_average(Lists, errorLog, probeOk, load, cpu_count) IN
          /\ load_status' = r.status
          /\ alerts' = r.lists.alerts
          /\ warnings' = r.lists.warnings
          /\ info' = r.lists.info
          /\ errorLog' = r.log
    /\ hpc' = "report"
    /\ UNCHANGED <<backup, args, cpu_status, memory_status, disk_status,
                   service_status, network_status, outputs>>

\* report = checker.generate_report(...)
GenerateReport ==
    /\ hpc = "report"
    /\ report' = generate_report(Lists, cpu_status, memory_status, disk_status,
                                 service_status, network_status, load_status)
    /\ hpc' = "output"
    /\ UNCHANGED <<backup, args, alerts, warnings, info, results, stdout, smtp,
                   errorLog, exitStatus>>

\* The output block of main: the whole report as JSON, or the text report
\* with the overall status, the alerts, the warnings and the first five
\* info lines.
Output ==
    /\ hpc = "output"
    /\ stdout' = IF args.json
                 THEN [format |-> "json",
                       overall_status |-> report.summary.overall_status,
                       alerts |-> report.alerts, warnings |-> report.warnings,
                       info |-> report.info]
                 ELSE [format |-> "text",
                       overall_status |-> report.summary.overall_status,
                       alerts |-> alerts, warnings |-> warnings,
                       info |-> Head5(info, InfoShown)]
    /\ hpc' = "email"
    /\ UNCHANGED <<backup, args, alerts, warnings, info, results, report, smtp,
                   errorLog, exitStatus>>

\* if args.email and checker.alerts: checker.send_email_alert(report, ...)
EmailAlert ==
    /\ hpc = "email"
    /\ IF args.email /\ alerts # <<>>
       THEN \E smtpOk \in BOOLEAN :
               LET r == send_email_alert(report, Lists, smtpOk, smtp, errorLog) IN
               /\ smtp' = r.smtp
               /\ errorLog' = r.log
       ELSE UNCHANGED <<smtp, errorLog>>
    /\ hpc' = "exit"
    /\ UNCHANGED <<backup, args, alerts, warnings, info, results, report, stdout,
                   exitStatus>>

\* The exit block of main: exit(2), exit(1) or exit(0).
Exit ==
    /\ hpc = "exit"
    /\ exitStatus' = ExitCodeOf(alerts, warnings)
    /\ hpc' = "exited"
    /\ UNCHANGED <<backup, args, alerts, warnings, info, results, report, stdout,
                   smtp, errorLog>>

HealthNext ==
    \/ CheckCpu
    \/ CheckMemory
    \/ CheckDisk
    \/ CheckServices
    \/ CheckNetwork
    \/ CheckLoad
    \/ GenerateReport
    \/ Output
    \/ EmailAlert
    \/ Exit

HealthSpec == HealthInit /\ [][HealthNext]_vars

(***************************************************************************)
(* Vocabulary of the properties.                                           *)
(***************************************************************************)
Positions == 1..Len(databases)

\* run_backup has entered its loop
LoopStarted == idx > 0

\* the loop of run_backup is over
LoopDone == LoopStarted /\ pc \in {"report", "exited"}

\* iteration i of the loop is over
Processed(i) == LoopStarted /\ (i < idx \/ LoopDone)

\* the calls of one iteration whose failure the orchestrator counts
StepFaults == {"open", "mysqldump", "gzip", "transfer", "tagging"}

\* the raw and compressed dump files of a database in the backup directory
ArtifactsOf(database) ==
    {f \in localFiles : StartsWith(f, <<"backup_dir/">> \o database \o <<"_">>)}

\* a pipeline for this database holds an artifact right now
InProgress(database) ==
    pc \in {"upload", "cleanup", "remove"} /\ Database(idx) = database

\* the age of an object as the call compares it: datetime.now() minus the
\* LastModified reading
AgeAt(c, obj) == c.localNow - obj.LastModified

\* the keys of a set of objects
KeysIn(store) == {o.Key : o \in store}

\* s occurs in t as a contiguous run of tokens
Infix(s, t) ==
    \E k \in 0..(Len(t) - Len(s)) : SubSeq(t, k + 1, k + Len(s)) = s

\* how many iterations are over
ProcessedCount ==
    IF ~LoopStarted THEN 0 ELSE IF LoopDone THEN Len(databases) ELSE idx - 1

\* the stage changes of one database that the claimed step order allows
StepOrder ==
    { <<"PENDING", "DUMPED">>, <<"DUMPED", "UPLOADED">>,
      <<"UPLOADED", "CLEANED">>, <<"CLEANED", "DONE">> }
    \cup { <<from, "FAILED">> :
              from \in {"PENDING", "DUMPED", "UPLOADED", "CLEANED"} }

\* the last token of a path or key
Suffix(p) == IF p = <<>> THEN "" ELSE p[Len(p)]

\* the call whose record lastCleanup holds listed the bucket successfully
ListedPass == lastCleanup.index > 0 /\ lastCleanup.error # "list"

\* the positions of the listing whose object the call's own test calls
\* expired
ExpiredListed(c) ==
    {k \in 1..Len(c.listing) : IsExpired(c.listing[k], c.cutoff)}

\* the objects stored under the prefix of a database
Under(store, database) ==
    {o \in store : StartsWith(o.Key, S3Prefix(database))}

\* the UTC instant of a cleanup call (its local reading less the offset)
UtcOf(c) == c.localNow - tzOffset

\* the decision of line 142 for an object, had the host clock been set to
\* another UTC offset at the same instant
DecisionAt(c, obj, offset) ==
    IsExpired(obj, CutoffDate(UtcOf(c) + offset, retention_days))

\* the position of the first "/" token of a key, from position k on
RECURSIVE FirstSlash(_, _)
FirstSlash(key, k) ==
    IF k > Len(key) \/ key[k] = "/" THEN k ELSE FirstSlash(key, k + 1)

\* the database a key belongs to: the tokens between the root folder and
\* the next separator
OwnerOf(key) == SubSeq(key, 2, FirstSlash(key, 2) - 1)

\* the key under which the current iteration stored its dump
UploadedKey == S3Key(Database(idx), Basename(dump_file))

\* send_email_alert got as far as smtplib: the mail was handed over, or the
\* SMTP conversation failed
EmailAttempted ==
    \/ smtp # <<>>
    \/ \E k \in 1..Len(errorLog) : errorLog[k] = <<"email", "SMTPException">>

\* main of the health check is past its e-mail block
PastEmail == hpc \in {"exit", "exited"}

(***************************************************************************)
(* C1.  Isolation: when the loop is over every configured database has     *)
(* been attempted (none is left PENDING), every database none of whose     *)
(* steps failed is DONE whatever happened to the ones before and after     *)
(* it, and error_count is the number of databases whose dump, compression  *)
(* or upload raised.                                                       *)
(***************************************************************************)
C1_Isolation ==
    LoopDone =>
        /\ \A i \in Positions : stage[i] \in {"DONE", "FAILED"}
        /\ \A i \in Positions : fault[i] = "none" => stage[i] = "DONE"
        /\ error_count = Cardinality({i \in Positions : fault[i] \in StepFaults})

\* a run in which the first database fails and the second still succeeds
C1_Witness ==
    /\ LoopDone
    /\ Len(databases) >= 2
    /\ fault[1] \in StepFaults
    /\ stage[2] = "DONE"
    /\ error_count = 1

(***************************************************************************)
(* C2.  Local-disk invariant: once the pipeline of a database is over, on  *)
(* whatever path, none of its artifact files is left in the backup         *)
(* directory (unless a later list entry of the same name is in progress).  *)
(* The code removes the file only at the end of the try block, so this     *)
(* fails after a dump, compression or upload failure.                      *)
(***************************************************************************)
C2_NoLocalArtifactLeft ==
    \A i \in Positions :
        (Processed(i) /\ ~InProgress(Database(i))) =>
            ArtifactsOf(Database(i)) = {}

(***************************************************************************)
(* C3.  The process exits with status 0 exactly when run_backup ran and    *)
(* counted no failure, and with status 1 otherwise; run_backup's result    *)
(* is true iff error_count = 0, iff every database reached DONE.           *)
(***************************************************************************)
C3_ExitCodeIffNoFailure ==
    /\ LoopDone => (run_backup_result <=> error_count = 0)
    /\ LoopDone =>
          (error_count = 0 <=> \A i \in Positions : stage[i] = "DONE")
    /\ pc = "exited" =>
          /\ exitCode \in {0, 1}
          /\ exitCode = 0 <=> (LoopStarted /\ error_count = 0)

\* a run of two databases that exits 1 although one of them succeeded
C3_Witness ==
    /\ pc = "exited"
    /\ exitCode = 1
    /\ success_count = 1
    /\ error_count = 1

(***************************************************************************)
(* C4.  send_notification is called at most once, never before every       *)
(* database has been processed, exactly once by the time a started run     *)
(* exits, and with is_error = (error_count > 0).                           *)
(***************************************************************************)
C4_NotifiedOnceAfterLoop ==
    /\ Len(notifications) <= 1
    /\ notifications # <<>> =>
          /\ \A i \in Positions : stage[i] \in {"DONE", "FAILED"}
          /\ notifications[1].is_error = (error_count > 0)
    /\ (pc = "exited" /\ LoopStarted) => Len(notifications) = 1

\* the first database succeeds, the upload of the second fails, and the one
\* notification carries is_error
C4_Witness ==
    /\ pc = "exited"
    /\ Len(databases) = 2
    /\ stage[1] = "DONE"
    /\ fault[2] = "transfer"
    /\ Len(notifications) = 1
    /\ notifications[1].is_error

C6_TaggingFailureNotFatal ==
    \A i \in Positions :
        (Processed(i) /\ fault[i] = "tagging") =>
            stage[i] = "DONE" /\ backup_details[i].ok

(***************************************************************************)
(* C7.  An error inside cleanup_old_backups (list_objects_v2 or a          *)
(* delete_object raising) never leaves the call: the statement after the   *)
(* call is reached, and that step removes the local artifact, increments   *)
(* success_count, leaves error_count alone and records a success line.     *)
(***************************************************************************)
C7_CleanupErrorNonFatal ==
    [][ /\ (pc = "cleanup" /\ lastCleanup'.error # "none") =>
              /\ pc' = "remove"
              /\ stage'[idx] = "CLEANED"
              /\ fault'[idx] = "none"
              /\ error_count' = error_count
        /\ (pc = "remove" /\ lastCleanup.error # "none") =>
              /\ stage'[idx] = "DONE"
              /\ success_count' = success_count + 1
              /\ error_count' = error_count
              /\ dump_file \in localFiles /\ dump_file \notin localFiles'
              /\ Len(backup_details') = Len(backup_details) + 1
              /\ backup_details'[Len(backup_details')].ok
      ]_vars

\* a run whose only database is DONE, exit status 0, although the delete of
\* an expired key raised
C7_Witness ==
    /\ pc = "exited"
    /\ lastCleanup.error = "delete"
    /\ stage[lastCleanup.index] = "DONE"
    /\ localFiles = {}
    /\ exitCode = 0

(***************************************************************************)
(* C8.  When delete_object raised for an expired key, the report handed to *)
(* send_notification carries a diagnostic naming that key.  The code only  *)
(* logs the error: no line of backup_details mentions it.                  *)
(***************************************************************************)
C8_DeleteFailureInReport ==
    (pc = "exited" /\ lastCleanup.error = "delete") =>
        \E n \in 1..Len(notifications) :
            \E k \in 1..Len(notifications[n].message.details) :
                Infix(lastCleanup.failedKey,
                      notifications[n].message.details[k].text)

(***************************************************************************)
(* C9.  When the SMTP session fails, the run still ends normally: the      *)
(* exit status is 0 iff error_count = 0, as when the mail is delivered.    *)
(***************************************************************************)
C9_NotifyFailureHarmless ==
    (pc = "exited" /\ notifications # <<>> /\ ~notifications[1].delivered) =>
        /\ exitCode = (IF error_count = 0 THEN 0 ELSE 1)
        /\ notifications[1].message.errors = error_count

\* every database succeeded, the mail could not be sent, exit status 0
C9_Witness ==
    /\ pc = "exited"
    /\ notifications # <<>>
    /\ ~notifications[1].delivered
    /\ error_count = 0
    /\ exitCode = 0

(***************************************************************************)
(* C10.  After every iteration backup_details holds one line per database  *)
(* processed so far, in list order, marked as a success iff that database  *)
(* reached DONE, and success_count + error_count is their number; at the   *)
(* end of the loop that number is len(self.databases).                     *)
(***************************************************************************)
C10_OneOutcomePerDatabase ==
    /\ Len(backup_details) = ProcessedCount
    /\ \A i \in 1..ProcessedCount :
          /\ backup_details[i].database = Strip(databases[i])
          /\ backup_details[i].ok <=> stage[i] = "DONE"
    /\ success_count =
           Cardinality({i \in 1..ProcessedCount : backup_details[i].ok})
    /\ error_count =
           Cardinality({i \in 1..ProcessedCount : ~backup_details[i].ok})
    /\ success_count + error_count = ProcessedCount

\* "a" succeeds and " ab" fails at the upload: lines [success a, failure ab]
C10_Witness ==
    /\ LoopDone
    /\ databases = << <<"a">>, <<" ", "a", "b">> >>
    /\ Len(backup_details) = 2
    /\ backup_details[1].ok /\ backup_details[1].database = <<"a">>
    /\ ~backup_details[2].ok /\ backup_details[2].database = <<"a", "b">>
    /\ fault[2] = "transfer"

(***************************************************************************)
(* C11.  When the constructor of MySQLBackupManager raises, the process    *)
(* exits with status 1 and nothing else has happened: no dump, no upload,  *)
(* no delete, no notification, no report line.  A non-zero exit without a  *)
(* call of send_notification happens in that case only.                    *)
(***************************************************************************)
C11_SetupErrorAbortsBeforeLoop ==
    [][ /\ (pc = "main" /\ pc' = "exited") =>
              /\ exitCode' = 1
              /\ ~LoopStarted'
              /\ \A i \in Positions : stage'[i] = "PENDING"
              /\ UNCHANGED <<localFiles, s3, notifications, backup_details,
                             success_count, error_count, lastCleanup, now>>
              /\ notifications' = <<>> /\ localFiles' = {}
        /\ (pc' = "exited" /\ exitCode' # 0 /\ notifications' = <<>>) =>
              (pc \in {"main", "exited"} /\ ~LoopStarted')
      ]_vars

\* the constructor raised: exit status 1, every database still PENDING
C11_Witness ==
    /\ pc = "exited"
    /\ ~LoopStarted
    /\ exitCode = 1
    /\ notifications = <<>>
    /\ Len(databases) = 2
    /\ \A i \in Positions : stage[i] = "PENDING"

(***************************************************************************)
(* C12.  Once the loop has started the run always ends: whatever the       *)
(* steps do, the report is built, send_notification is called with it and  *)
(* the process exits.                                                      *)
(***************************************************************************)
C12_ReportAlwaysProduced ==
    LoopStarted ~>
        (/\ pc = "exited"
         /\ Len(notifications) = 1
         /\ notifications[1].message.processed = Len(databases)
         /\ Len(notifications[1].message.details) = Len(databases)
         /\ exitCode \in {0, 1})

\* every database failed, each at a step, and the report was still handed
\* to send_notification
C12_Witness ==
    /\ pc = "exited"
    /\ Len(databases) = 2
    /\ fault[1] = "mysqldump"
    /\ fault[2] = "tagging"
    /\ Len(notifications) = 1
    /\ notifications[1].message.errors = 2

(***************************************************************************)
(* C13.  The steps of a database happen only in the order dump, upload,    *)
(* cleanup, local removal, success.  upload_to_s3 is entered only with the *)
(* compressed dump of a dump that succeeded (the raw file is gone, the     *)
(* .gz file is there); cleanup_old_backups is entered only when the upload *)
(* of that file succeeded; a failed database stays FAILED, and the step    *)
(* at which a dump fails touches neither the bucket nor the cleanup record.*)
(***************************************************************************)
C13_StepOrder ==
    [][ /\ \A i \in Positions :
              stage'[i] # stage[i] =>
                  /\ i = idx
                  /\ <<stage[i], stage'[i]>> \in StepOrder
        /\ idx' >= idx
        /\ pc = "upload" =>
              /\ stage[idx] = "DUMPED" /\ fault[idx] = "none"
              /\ Suffix(dump_file) = ".gz"
              /\ dump_file \in localFiles
              /\ SubSeq(dump_file, 1, Len(dump_file) - 1) \notin localFiles
              /\ StartsWith(dump_file, <<"backup_dir/">> \o Database(idx))
        /\ pc = "cleanup" =>
              /\ stage[idx] = "UPLOADED" /\ fault[idx] = "none"
              /\ \E o \in s3 : /\ o.Key = S3Key(Database(idx), Basename(dump_file))
                               /\ o.Tagged
        /\ s3' # s3 => pc \in {"upload", "cleanup"}
        /\ lastCleanup' # lastCleanup => pc = "cleanup"
        /\ (pc = "dump" /\ stage'[idx] = "FAILED") =>
              /\ pc' \in {"dump", "report"}
              /\ UNCHANGED <<s3, lastCleanup>>
      ]_vars

\* the first database failed in its dump and the second one went through
\* every step
C13_Witness ==
    /\ Len(databases) = 2
    /\ LoopDone
    /\ fault[1] = "gzip" /\ stage[1] = "FAILED"
    /\ stage[2] = "DONE"
    /\ lastCleanup.index = 2

(***************************************************************************)
(* C14.  In a cleanup pass whose listing succeeded, delete_object is       *)
(* called for every listed key that is expired, also for the keys that     *)
(* come after a key whose delete failed.                                   *)
(***************************************************************************)
C14_EveryExpiredKeyAttempted ==
    ListedPass =>
        \A k \in ExpiredListed(lastCleanup) :
            lastCleanup.listing[k].Key \in lastCleanup.issued

(***************************************************************************)
(* C15.  After a cleanup pass in which no call to the store failed, no     *)
(* expired object is left under the prefix of that database, however many  *)
(* objects the prefix holds and whatever the page size of the listing.     *)
(***************************************************************************)
C15_NoExpiredObjectLeft ==
    (pc = "remove" /\ lastCleanup.index = idx /\ lastCleanup.error = "none") =>
        \A o \in Under(s3, Database(idx)) : ~IsExpired(o, lastCleanup.cutoff)

(***************************************************************************)
(* C16.  While the loop runs, every file in the local backup directory is  *)
(* an artifact of the database being processed; nothing of an earlier      *)
(* database, failed or not, is there.                                      *)
(***************************************************************************)
C16_OnlyCurrentArtifacts ==
    (LoopStarted /\ ~LoopDone) => localFiles \subseteq ArtifactsOf(Database(idx))

(***************************************************************************)
(* C17.  The expiry decision does not depend on the UTC offset of the      *)
(* host clock: for every object a cleanup pass examined, the decision it   *)
(* took is the one it would have taken at the same instant under every     *)
(* other offset.                                                           *)
(***************************************************************************)
C17_DecisionIndependentOfOffset ==
    ListedPass =>
        \A k \in 1..lastCleanup.examined : \A offset \in TzOffsets :
            DecisionAt(lastCleanup, lastCleanup.listing[k], offset)
                <=> (lastCleanup.listing[k].Key \in lastCleanup.issued)

(***************************************************************************)
(* C18.  The cleanup of a database lists and deletes only keys under that  *)
(* database's own prefix, the prefix its upload stores under; a key that   *)
(* belongs to another database is never deleted, also when one name is a   *)
(* prefix of the other.  Objects are deleted only by the cleanup step of   *)
(* a list entry whose upload succeeded, and such an entry never becomes    *)
(* FAILED: an entry that FAILED has deleted nothing.                       *)
(***************************************************************************)
C18_CleanupStaysInOwnPrefix ==
    [][ LET removed == KeysIn(s3) \ KeysIn(s3')
            added   == KeysIn(s3') \ KeysIn(s3)
        IN  /\ removed # {} =>
                  /\ pc = "cleanup"
                  /\ stage[idx] = "UPLOADED" /\ stage'[idx] = "CLEANED"
                  /\ removed = lastCleanup'.deleted
            /\ \A key \in removed :
                  /\ OwnerOf(key) = Database(idx)
                  /\ StartsWith(key, S3Prefix(Database(idx)))
            /\ pc = "cleanup" =>
                  \A k \in 1..Len(lastCleanup'.listing) :
                      OwnerOf(lastCleanup'.listing[k].Key) = Database(idx)
            /\ \A key \in added :
                  /\ pc = "upload"
                  /\ OwnerOf(key) = Database(idx)
                  /\ StartsWith(key, S3Prefix(Database(idx)))
            /\ \A i \in Positions :
                  /\ stage[i] = "CLEANED" => stage'[i] \in {"CLEANED", "DONE"}
                  /\ stage[i] = "FAILED" => stage'[i] = "FAILED"
      ]_vars

\* the cleanup of "a" deleted an old backup of "a" while an old backup of
\* "ab", whose upload failed in this run, is still stored
C18_Witness ==
    /\ Len(databases) = 2
    /\ Database(1) = <<"a", "b">> /\ Database(2) = <<"a">>
    /\ fault[1] = "transfer"
    /\ lastCleanup.index = 2
    /\ lastCleanup.deleted # {}
    /\ \E o \in s3 : OwnerOf(o.Key) = <<"a", "b">>
                     /\ IsExpired(o, lastCleanup.cutoff)

(***************************************************************************)
(* C19.  For every retention window, zero days included, the object that   *)
(* the run has just uploaded for a database is still in the bucket when    *)
(* the cleanup pass of that database is over.                              *)
(***************************************************************************)
C19_FreshBackupSurvivesCleanup ==
    (pc = "remove" /\ lastCleanup.index = idx) => UploadedKey \in KeysIn(s3)

(***************************************************************************)
(* C20.  When the health check has exited, its exit status is 2 exactly    *)
(* when alerts is non-empty, 1 exactly when alerts is empty and warnings   *)
(* is not, 0 exactly when both are empty, and the overall_status of the    *)
(* report it generated is CRITICAL, WARNING or OK accordingly.             *)
(***************************************************************************)
C20_ExitCodeMatchesStatus ==
    hpc = "exited" =>
        /\ exitStatus \in {0, 1, 2}
        /\ exitStatus = 2 <=> alerts # <<>>
        /\ exitStatus = 1 <=> (alerts = <<>> /\ warnings # <<>>)
        /\ exitStatus = 0 <=> (alerts = <<>> /\ warnings = <<>>)
        /\ report.summary.overall_status = "CRITICAL" <=> exitStatus = 2
        /\ report.summary.overall_status = "WARNING" <=> exitStatus = 1
        /\ report.summary.overall_status = "OK" <=> exitStatus = 0
        /\ report.alerts = alerts /\ report.warnings = warnings

\* a run with both alerts and warnings exits with 2 and reports CRITICAL
C20_Witness ==
    /\ hpc = "exited"
    /\ alerts # <<>> /\ warnings # <<>>
    /\ exitStatus = 2
    /\ report.summary.overall_status = "CRITICAL"
    /\ load_status = None

(***************************************************************************)
(* C21.  When --email was given and at least one alert was recorded, the   *)
(* health check attempts to send the alert mail, whatever the checks       *)
(* returned, also when check_load_average returned None; and when there    *)
(* is no alert no mail is sent or attempted.                               *)
(***************************************************************************)
C21_AlertMailAttempted ==
    PastEmail =>
        /\ (args.email /\ alerts # <<>>) => EmailAttempted
        /\ alerts = <<>> => (~EmailAttempted /\ smtp = <<>>)

=============================================================================
